---- MODULE Spec2Model ----
(***************************************************************************)
(* athena-ballerina: reconciliation of the local migration directory with  *)
(* the markers recorded in the remote store (ballerina.py), and the query  *)
(* executor it drives (aws_helper.py, ballerina_aws_helper.py).            *)
(***************************************************************************)
EXTENDS Integers, Sequences, FiniteSets, TLC

\* Largest number of migrations in the local directory and in the remote store.
MaxMigrations == 2
\* Largest migration id of the lists handed to get_diff on its own (SpecDiff).
MaxDiffId == 3
\* Largest number of pieces of a script handed to execute_many on its own
\* (SpecExecute).
MaxPieces == 2
\* Number of non-terminal answers (QUEUED, RUNNING, no state) the query
\* service gives for one statement before it answers with a terminal state.
MaxPolls == 1
\* Largest length of the lists handed to apply_all and unapply_all on their
\* own (SpecOrder).
MaxListLen == 2

VARIABLES
    other,              \* a second run of main, while the first takes the steps
    directory,          \* the names of the files of the migrations directory
    local,              \* migrations_from_filesystem (main)
    auto_apply_down,    \* the -a flag
    helper,             \* the module AthenaInfo comes from
    store,              \* the objects of the bucket under the prefix
    remote0,            \* the objects of the bucket when the run started
    migrations_from_db, \* main's sorted list of recorded migrations
    old_branch,         \* rollback set (main)
    new_branch,         \* apply set (main)
    phase,              \* the part of main that is running
    pc,                 \* the next call of that part
    idx,                \* position of the running loop in its list
    queries,            \* execute_many: the pieces not yet looked at
    state,              \* execute: the local variable state
    polls,              \* non-terminal answers given for the running statement
    submitted,          \* statements accepted by start_query_execution
    left_unfinished,    \* execute returned for a statement not seen SUCCEEDED
    halt                \* why the run stopped

vars == <<other, directory, local, auto_apply_down, helper, store, remote0,
          migrations_from_db,
          old_branch, new_branch, phase, pc, idx, queries, state, polls,
          submitted, left_unfinished, halt>>

----------------------------------------------------------------------------
(* Scripts.  A script text is the sequence of its pieces between           *)
(* semicolons; piece 0 is a piece that is blank after stripping.           *)

Statements == {1, 2, 3}
Texts == { <<1>>, <<2, 0, 3>> }

\* The value of a field that holds Python's None.
None == << -1 >>

RECURSIVE digest(_)
\* sha256 of the text: a number that is different for different texts.
digest(s) ==
    IF s = <<>> THEN 0
    ELSE digest(SubSeq(s, 1, Len(s) - 1)) * (Cardinality(Statements) + 2)
         + s[Len(s)] + 1

Migration(id, ud, dd, u, d) ==
    [migration_id |-> id, up_digest |-> ud, down_digest |-> dd, up |-> u, down |-> d]

parse_migration(id, u, d) == Migration(id, digest(u), digest(d), u, d)

\* Keys of the bucket: prefix + id:up_digest:down_digest + suffix.
get_migration_prefix(m) == <<m.migration_id, m.up_digest, m.down_digest>>
UpKey(m) == get_migration_prefix(m) \o <<"_up.sql">>
DownKey(m) == get_migration_prefix(m) \o <<"_down.sql">>

parse_migration_prefix(key) == Migration(key[1], key[2], key[3], None, None)

----------------------------------------------------------------------------
(* The migrations directory.  A file name is the text before its first     *)
(* underscore (head "int" with the number id when int() parses it, head    *)
(* "text" otherwise, also when the name has no underscore) and the rest.   *)

FileName(k, rest) == [head |-> "int", id |-> k, rest |-> rest]

UpFile(k) == FileName(k, "_up.sql")
DownFile(k) == FileName(k, "_down.sql")

\* README.md, x_up.sql, 1_notes.sql and 1_UP.SQL.
OtherFileNames ==
    { [head |-> "text", id |-> 0, rest |-> "README.md"],
      [head |-> "text", id |-> 0, rest |-> "_up.sql"],
      FileName(1, "_notes.sql"),
      FileName(1, "_UP.SQL") }

FileNames ==
    {UpFile(k) : k \in 1..MaxMigrations} \cup {DownFile(k) : k \in 1..MaxMigrations}
        \cup OtherFileNames

\* file.name.lower().endswith('.sql')
LowerEndsWithSql(f) == f.rest \in {"_up.sql", "_down.sql", "_notes.sql", "_UP.SQL"}

\* Mutant: every file of the directory is taken.
get_migration_files_unfiltered(dir) == dir

get_migration_files_filtered(dir) == {f \in dir : LowerEndsWithSql(f)}

\* get_migration_id answers with an int, or exits with code 3.
HasMigrationId(f) == f.head = "int"

get_max_migration_id(filenames) ==
    CHOOSE x \in {f.id : f \in filenames} : \A f \in filenames : f.id <= x

\* How assert_all_migrations_present leaves: by exit(0), by exit(3), by an
\* AssertionError, or by returning.
assert_all_migrations_present(dir) ==
    LET filenames == get_migration_files_filtered(dir)
    IN  IF filenames = {} THEN "exit0"
        ELSE IF \E f \in filenames : ~HasMigrationId(f) THEN "exit3"
        ELSE LET max_migration_id == get_max_migration_id(filenames)
                 expected == {UpFile(k) : k \in 1..max_migration_id}
                                 \cup {DownFile(k) : k \in 1..max_migration_id}
             IN  IF ~(expected \subseteq filenames) THEN "AssertionError"
                 ELSE IF filenames \ expected # {} THEN "exit3"
                 ELSE "returned"

\* The files of a directory that parse_migrations reads as the list ms.
DirectoryOf(ms) ==
    {UpFile(k) : k \in 1..Len(ms)} \cup {DownFile(k) : k \in 1..Len(ms)}

----------------------------------------------------------------------------
(* The bucket (S3Info).                                                    *)

\* Mutant: nothing is written when the bucket has a marker of the same id
\* with another digest pair.
s3_write_if_new_id(st, key, body) ==
    IF \E o \in st : o.key[1] = key[1] /\ <<o.key[2], o.key[3]>> # <<key[2], key[3]>>
    THEN st
    ELSE {o \in st : o.key # key} \cup {[key |-> key, body |-> body]}

s3_write(st, key, body) ==
    {o \in st : o.key # key} \cup {[key |-> key, body |-> body]}

\* Mutant: the object stays in the bucket.
s3_delete_noop(st, key) == st

s3_delete(st, key) == {o \in st : o.key # key}

s3_has(st, key) == \E o \in st : o.key = key

s3_read(st, key) == (CHOOSE o \in st : o.key = key).body

get_db_migration_digests(st) == {parse_migration_prefix(o.key) : o \in st}

----------------------------------------------------------------------------
(* Ordering of Migration tuples and sorted().                              *)

MigLess(a, b) ==
    \/ a.migration_id < b.migration_id
    \/ /\ a.migration_id = b.migration_id
       /\ \/ a.up_digest < b.up_digest
          \/ /\ a.up_digest = b.up_digest
             /\ a.down_digest < b.down_digest

RECURSIVE Insert(_, _)
Insert(m, s) ==
    IF s = <<>> THEN <<m>>
    ELSE IF MigLess(m, s[1]) THEN <<m>> \o s
    ELSE <<s[1]>> \o Insert(m, Tail(s))

RECURSIVE sorted(_)
sorted(s) == IF s = <<>> THEN <<>> ELSE Insert(s[Len(s)], sorted(SubSeq(s, 1, Len(s) - 1)))

Reverse(s) == [k \in 1..Len(s) |-> s[Len(s) + 1 - k]]

sorted_reverse(s) == Reverse(sorted(s))

RECURSIVE SetToSeq(_)
SetToSeq(S) ==
    IF S = {} THEN <<>>
    ELSE LET m == CHOOSE x \in S : TRUE IN <<m>> \o SetToSeq(S \ {m})

Min(a, b) == IF a < b THEN a ELSE b

\* main: migrations_from_db = sorted(get_db_migration_digests(s3))
read_remote(st) == sorted(SetToSeq(get_db_migration_digests(st)))

----------------------------------------------------------------------------
(* The divergence resolver.                                                *)

\* Mutant: a different down digest is a mismatch too.
Divergent_with_down(db, fs) ==
    {p \in 1..Min(Len(db), Len(fs)) :
        \/ db[p].up_digest # fs[p].up_digest
        \/ db[p].down_digest # fs[p].down_digest}

Divergent(db, fs) ==
    {p \in 1..Min(Len(db), Len(fs)) : db[p].up_digest # fs[p].up_digest}

HasDivergence(db, fs) == Divergent(db, fs) # {}

first_divergence(db, fs) ==
    db[CHOOSE p \in Divergent(db, fs) : \A q \in Divergent(db, fs) : p <= q]

\* Mutant: the number of recorded migrations stands for the largest id.
MaxId_count(db) == Len(db)

MaxId(db) ==
    IF db = <<>> THEN 0
    ELSE CHOOSE x \in {db[p].migration_id : p \in 1..Len(db)} :
            \A p \in 1..Len(db) : db[p].migration_id <= x

\* Mutant: every migration is taken, also those before the divergence point.
AtOrAfter_whole(m, d) == m.migration_id >= 1

\* Mutant: the migration at the divergence point is left out.
AtOrAfter_strict(m, d) == m.migration_id > d

AtOrAfter(m, d) == m.migration_id >= d

get_diff(db, fs) ==
    IF HasDivergence(db, fs)
    THEN LET D == first_divergence(db, fs).migration_id
         IN  [old |-> sorted_reverse(SelectSeq(db, LAMBDA m : AtOrAfter(m, D))),
              new |-> sorted(SelectSeq(fs, LAMBDA m : AtOrAfter(m, D)))]
    ELSE [old |-> <<>>,
          new |-> sorted(SelectSeq(fs, LAMBDA m : m.migration_id > MaxId(db)))]

----------------------------------------------------------------------------
(* The query executor (AthenaInfo).                                        *)

Responses == {"QUEUED", "RUNNING", "SUCCEEDED", "FAILED", "CANCELLED", "NOSTATE"}
NonTerminalResponses == {"QUEUED", "RUNNING", "NOSTATE"}

RUNNING(h) == IF h = "aws_helper" THEN {"RUNNING"} ELSE {"QUEUED", "RUNNING"}
SUCCESS(h) == {"SUCCEEDED"}
FAILURE(h) == IF h = "aws_helper" THEN {"FAILED"} ELSE {"FAILED", "CANCELLED"}
InitialState(h) == IF h = "aws_helper" THEN "RUNNING" ELSE "QUEUED"

\* Mutant: a blank piece ends the script.
SkipBlank_stop(q) == IF q # <<>> /\ q[1] = 0 THEN <<>> ELSE q

\* execute_many: the pieces of the script that are left after one piece
\* that is blank is skipped.
RECURSIVE SkipBlank(_)
SkipBlank(q) == IF q # <<>> /\ q[1] = 0 THEN SkipBlank(Tail(q)) ELSE q

parsed_queries(text) == SkipBlank(text)

----------------------------------------------------------------------------
(* Control flow of main.                                                   *)

Control(ph, p, i, q) ==
    /\ phase' = ph
    /\ pc' = p
    /\ idx' = i
    /\ queries' = q
    /\ halt' = halt

\* An exception or exit() leaves main: nothing runs after it.
Abort(reason) ==
    /\ pc' = "aborted"
    /\ halt' = reason
    /\ UNCHANGED <<phase, idx, queries>>

\* apply_up / apply_down up to the first call of execute_many's loop.
ControlScript(ph, i, text, emptyPc) ==
    LET q == parsed_queries(text)
    IN  Control(ph, IF q = <<>> THEN emptyPc ELSE "submit", i, q)

\* apply_all(s3, athena, new_branch), then executor.shutdown.
BeginApplyAll(nb) ==
    IF sorted(nb) # nb THEN Abort("assert")
    ELSE IF nb = <<>> THEN Control("end", "done", 0, <<>>)
    ELSE ControlScript("apply", 1, nb[1].up, "write_up")

\* unapply_all(s3, athena, old_branch).
BeginUnapplyAll(ob) ==
    IF sorted_reverse(ob) # ob THEN Abort("assert")
    ELSE ControlScript("rollback", 1, ob[1].down, "delete_up")

\* Mutant: the rollback set is unapplied whatever the flag says.
ChooseBranch_ignoring_flag(ob, nb) ==
    IF ob # <<>> THEN Control("fill", "read", 1, <<>>) ELSE BeginApplyAll(nb)

\* main: if old_branch: ... else exit(5); apply_all(...)
ChooseBranch(ob, nb) ==
    IF ob # <<>>
    THEN IF auto_apply_down
         THEN Control("fill", "read", 1, <<>>)
         ELSE Control("end", "exit5", 0, <<>>)
    ELSE BeginApplyAll(nb)

\* unapply_all: the turn after position i, or the return to main.
NextUnapply(i) ==
    IF i < Len(old_branch)
    THEN ControlScript("rollback", i + 1, old_branch[i + 1].down, "delete_up")
    ELSE BeginApplyAll(new_branch)

\* Mutant: the down script of the directory is taken when it has the id.
fill_db_migration_local(st, m) ==
    [m EXCEPT !.down = IF m.migration_id <= Len(local)
                       THEN local[m.migration_id].down
                       ELSE s3_read(st, DownKey(m))]

\* fill_db_migration: the migration with the body of its down marker.
fill_db_migration(st, m) == [m EXCEPT !.down = s3_read(st, DownKey(m))]

\* main: list the markers, resolve, and choose the branch.
Resolve ==
    /\ phase = "start" /\ pc = "main"
    /\ \E ok \in BOOLEAN :
        IF ~ok
        THEN /\ Abort("store")
             /\ UNCHANGED <<migrations_from_db, old_branch, new_branch>>
        ELSE LET db == read_remote(store)
                 d == get_diff(db, local)
             IN  /\ migrations_from_db' = db
                 /\ old_branch' = d.old
                 /\ new_branch' = d.new
                 /\ ChooseBranch(d.old, d.new)
    /\ UNCHANGED <<other, directory, local, auto_apply_down, helper, store, remote0, state, polls,
                   submitted, left_unfinished>>

\* Mutant: the run goes on without the down script that could not be read.
FetchFailed_swallowed ==
    /\ UNCHANGED old_branch
    /\ IF idx < Len(old_branch)
       THEN Control("fill", "read", idx + 1, <<>>)
       ELSE BeginUnapplyAll(old_branch)

\* fill_db_migration: s3.read raises and the exception leaves main.
FetchFailed ==
    /\ Abort("store")
    /\ UNCHANGED old_branch

\* main: old_branch = [fill_db_migration(s3, m) for m in old_branch], one read.
FillDbMigration ==
    /\ phase = "fill" /\ pc = "read"
    /\ \E ok \in BOOLEAN :
        IF ok /\ s3_has(store, DownKey(old_branch[idx]))
        THEN LET ob == [old_branch EXCEPT
                          ![idx] = fill_db_migration(store, old_branch[idx])]
             IN  /\ old_branch' = ob
                 /\ IF idx < Len(ob)
                    THEN Control("fill", "read", idx + 1, <<>>)
                    ELSE BeginUnapplyAll(ob)
        ELSE FetchFailed
    /\ UNCHANGED <<other, directory, local, auto_apply_down, helper, store, remote0,
                   migrations_from_db, new_branch, state, polls, submitted,
                   left_unfinished>>

\* execute: start_query_execution and the assignment of state.
Submit ==
    /\ pc = "submit"
    /\ \E ok \in BOOLEAN :
        IF ok
        THEN /\ submitted' = submitted + 1
             /\ state' = InitialState(helper)
             /\ polls' = 0
             /\ Control(phase, "poll", idx, queries)
        ELSE /\ Abort("service")
             /\ UNCHANGED <<submitted, state, polls>>
    /\ UNCHANGED <<other, directory, local, auto_apply_down, helper, store, remote0,
                   migrations_from_db, old_branch, new_branch, left_unfinished>>

\* What follows the return of execute_many.
AfterScript(ph) ==
    IF ph = "rollback" THEN "delete_up"
    ELSE IF ph = "apply" THEN "write_up"
    ELSE "returned"

\* Mutant: the service may go on with answers that are no terminal state
\* (the count of them is kept modulo MaxPolls + 1).
Poll_service_never_done ==
    /\ pc = "poll"
    /\ \E r \in Responses :
        LET st == IF r = "NOSTATE" THEN state ELSE r
            rest == SkipBlank(Tail(queries))
        IN  /\ state' = st
            /\ polls' = IF r \in NonTerminalResponses
                        THEN (polls + 1) % (MaxPolls + 1)
                        ELSE polls
            /\ IF r # "NOSTATE" /\ st \in FAILURE(helper)
               THEN /\ Abort("query")
                    /\ UNCHANGED left_unfinished
               ELSE IF st \in RUNNING(helper)
               THEN /\ Control(phase, "poll", idx, queries)
                    /\ UNCHANGED left_unfinished
               ELSE /\ Control(phase,
                               IF rest # <<>> THEN "submit" ELSE AfterScript(phase),
                               idx, rest)
                    /\ left_unfinished' = (left_unfinished \/ st \notin SUCCESS(helper))
    /\ UNCHANGED <<other, directory, local, auto_apply_down, helper, store, remote0,
                   migrations_from_db, old_branch, new_branch, submitted>>

\* execute: one turn of the poll loop, with the answer r of get_query_execution.
Poll ==
    /\ pc = "poll"
    /\ \E r \in Responses :
        /\ r \in NonTerminalResponses => polls < MaxPolls
        /\ LET st == IF r = "NOSTATE" THEN state ELSE r
               rest == SkipBlank(Tail(queries))
           IN  /\ state' = st
               /\ polls' = IF r \in NonTerminalResponses THEN polls + 1 ELSE polls
               /\ IF r # "NOSTATE" /\ st \in FAILURE(helper)
                  THEN /\ Abort("query")
                       /\ UNCHANGED left_unfinished
                  ELSE IF st \in RUNNING(helper)
                  THEN /\ Control(phase, "poll", idx, queries)
                       /\ UNCHANGED left_unfinished
                  ELSE /\ Control(phase,
                                  IF rest # <<>> THEN "submit" ELSE AfterScript(phase),
                                  idx, rest)
                       /\ left_unfinished' = (left_unfinished \/ st \notin SUCCESS(helper))
    /\ UNCHANGED <<other, directory, local, auto_apply_down, helper, store, remote0,
                   migrations_from_db, old_branch, new_branch, submitted>>

\* apply_down: s3.delete of the up marker.
DeleteUpMarker ==
    /\ phase = "rollback" /\ pc = "delete_up"
    /\ \E ok \in BOOLEAN :
        IF ok
        THEN /\ store' = s3_delete(store, UpKey(old_branch[idx]))
             /\ Control(phase, "delete_down", idx, queries)
        ELSE /\ Abort("store")
             /\ UNCHANGED store
    /\ UNCHANGED <<other, directory, local, auto_apply_down, helper, remote0, migrations_from_db,
                   old_branch, new_branch, state, polls, submitted,
                   left_unfinished>>

\* apply_down: s3.delete of the down marker, and the next turn of unapply_all.
DeleteDownMarker ==
    /\ phase = "rollback" /\ pc = "delete_down"
    /\ \E ok \in BOOLEAN :
        IF ok
        THEN /\ store' = s3_delete(store, DownKey(old_branch[idx]))
             /\ NextUnapply(idx)
        ELSE /\ Abort("store")
             /\ UNCHANGED store
    /\ UNCHANGED <<other, directory, local, auto_apply_down, helper, remote0, migrations_from_db,
                   old_branch, new_branch, state, polls, submitted,
                   left_unfinished>>

\* apply_up: s3.write of the up marker.
WriteUpMarker ==
    /\ phase = "apply" /\ pc = "write_up"
    /\ \E ok \in BOOLEAN :
        IF ok
        THEN /\ store' = s3_write(store, UpKey(new_branch[idx]), new_branch[idx].up)
             /\ Control(phase, "write_down", idx, queries)
        ELSE /\ Abort("store")
             /\ UNCHANGED store
    /\ UNCHANGED <<other, directory, local, auto_apply_down, helper, remote0, migrations_from_db,
                   old_branch, new_branch, state, polls, submitted,
                   left_unfinished>>

\* apply_up: s3.write of the down marker, and the next turn of apply_all.
WriteDownMarker ==
    /\ phase = "apply" /\ pc = "write_down"
    /\ \E ok \in BOOLEAN :
        IF ok
        THEN /\ store' = s3_write(store, DownKey(new_branch[idx]), new_branch[idx].down)
             /\ IF idx < Len(new_branch)
                THEN ControlScript("apply", idx + 1, new_branch[idx + 1].up, "write_up")
                ELSE Control("end", "done", 0, <<>>)
        ELSE /\ Abort("store")
             /\ UNCHANGED store
    /\ UNCHANGED <<other, directory, local, auto_apply_down, helper, remote0, migrations_from_db,
                   old_branch, new_branch, state, polls, submitted,
                   left_unfinished>>

----------------------------------------------------------------------------
(* A run of main against a bucket that earlier complete runs left.         *)

\* parse_migrations: the migrations 1..n of a directory that passed
\* assert_all_migrations_present.
MigrationListsUpTo(max) ==
    UNION { { [k \in 1..n |-> parse_migration(k, f[k][1], f[k][2])] :
                f \in [1..n -> Texts \X Texts] } : n \in 0..max }

MigrationLists == MigrationListsUpTo(MaxMigrations)

MarkersOf(ms) ==
    UNION { { [key |-> UpKey(ms[k]), body |-> ms[k].up],
              [key |-> DownKey(ms[k]), body |-> ms[k].down] } : k \in 1..Len(ms) }

Init ==
    /\ local \in {l \in MigrationLists : l # <<>>}
    /\ directory = DirectoryOf(local)
    /\ other = <<>>
    /\ auto_apply_down \in BOOLEAN
    /\ helper = "aws_helper"
    /\ \E r \in MigrationLists : store = MarkersOf(r)
    /\ remote0 = store
    /\ migrations_from_db = <<>>
    /\ old_branch = <<>>
    /\ new_branch = <<>>
    /\ phase = "start"
    /\ pc = "main"
    /\ idx = 0
    /\ queries = <<>>
    /\ state = "NONE"
    /\ polls = 0
    /\ submitted = 0
    /\ left_unfinished = FALSE
    /\ halt = "none"

Next ==
    \/ Resolve
    \/ FillDbMigration
    \/ Submit
    \/ Poll
    \/ DeleteUpMarker
    \/ DeleteDownMarker
    \/ WriteUpMarker
    \/ WriteDownMarker

Spec == Init /\ [][Next]_vars

\* The run with a process that keeps taking steps: every call of the bucket
\* and of the service returns, and a statement gets a terminal answer after
\* at most MaxPolls answers that are none.
SpecFair == Spec /\ WF_vars(Next)

----------------------------------------------------------------------------
(* get_diff on its own: the local list is what parse_migrations returns,   *)
(* the recorded list is any list of markers ascending by id.               *)

Digests == {digest(t) : t \in Texts}

RECURSIVE AscendingIds(_)
\* The ids of S, ascending.
AscendingIds(S) ==
    IF S = {} THEN <<>>
    ELSE LET x == CHOOSE y \in S : \A z \in S : y <= z
         IN  <<x>> \o AscendingIds(S \ {x})

RecordedLists ==
    UNION { { [k \in 1..Cardinality(S) |->
                 Migration(AscendingIds(S)[k], f[AscendingIds(S)[k]][1],
                           f[AscendingIds(S)[k]][2], None, None)] :
              f \in [S -> Digests \X Digests] } : S \in SUBSET (1..MaxDiffId) }

InitDiff ==
    /\ local \in {l \in MigrationListsUpTo(MaxDiffId) : l # <<>>}
    /\ directory = DirectoryOf(local)
    /\ other = <<>>
    /\ migrations_from_db \in RecordedLists
    /\ auto_apply_down = TRUE
    /\ helper = "aws_helper"
    /\ store = {}
    /\ remote0 = {}
    /\ old_branch = <<>>
    /\ new_branch = <<>>
    /\ phase = "diff"
    /\ pc = "get_diff"
    /\ idx = 0
    /\ queries = <<>>
    /\ state = "NONE"
    /\ polls = 0
    /\ submitted = 0
    /\ left_unfinished = FALSE
    /\ halt = "none"

\* old_branch, new_branch = get_diff(migrations_from_db, migrations_from_filesystem)
GetDiff ==
    /\ phase = "diff" /\ pc = "get_diff"
    /\ old_branch' = get_diff(migrations_from_db, local).old
    /\ new_branch' = get_diff(migrations_from_db, local).new
    /\ pc' = "diffed"
    /\ UNCHANGED <<other, directory, local, auto_apply_down, helper, store, remote0,
                   migrations_from_db, phase, idx, queries, state, polls,
                   submitted, left_unfinished, halt>>

NextDiff == GetDiff

SpecDiff == InitDiff /\ [][NextDiff]_vars

----------------------------------------------------------------------------
(* execute_many on its own, with the AthenaInfo of either module; the       *)
(* script it is given is kept as the up script of new_branch[1].           *)

Helpers == {"aws_helper", "ballerina_aws_helper"}

ExecTexts == UNION { [1..n -> {0} \cup Statements] : n \in 0..MaxPieces }

InitExecute ==
    /\ helper \in Helpers
    /\ \E text \in ExecTexts :
         /\ new_branch = <<Migration(1, 0, 0, text, None)>>
         /\ queries = parsed_queries(text)
         /\ pc = IF queries = <<>> THEN "returned" ELSE "submit"
    /\ phase = "execute"
    /\ local = <<>>
    /\ directory = {}
    /\ other = <<>>
    /\ auto_apply_down = TRUE
    /\ store = {}
    /\ remote0 = {}
    /\ migrations_from_db = <<>>
    /\ old_branch = <<>>
    /\ idx = 1
    /\ state = "NONE"
    /\ polls = 0
    /\ submitted = 0
    /\ left_unfinished = FALSE
    /\ halt = "none"

NextExecute == Submit \/ Poll

SpecExecute == InitExecute /\ [][NextExecute]_vars

----------------------------------------------------------------------------
(* apply_all and unapply_all on their own, with any list of migrations.    *)

MigrationPool ==
    {parse_migration(k, u, d) : k \in 1..MaxMigrations, u \in Texts, d \in Texts}

OrderLists == UNION { [1..n -> MigrationPool] : n \in 0..MaxListLen }

InitOrder ==
    /\ \E l \in OrderLists :
         \/ pc = "apply_all" /\ new_branch = l /\ old_branch = <<>>
         \/ pc = "unapply_all" /\ old_branch = l /\ new_branch = <<>>
    /\ phase = "order"
    /\ local = <<>>
    /\ directory = {}
    /\ other = <<>>
    /\ auto_apply_down = TRUE
    /\ helper = "aws_helper"
    /\ store = MarkersOf(old_branch)
    /\ remote0 = store
    /\ migrations_from_db = <<>>
    /\ idx = 0
    /\ queries = <<>>
    /\ state = "NONE"
    /\ polls = 0
    /\ submitted = 0
    /\ left_unfinished = FALSE
    /\ halt = "none"

\* apply_all(s3, athena, new_branch)
CallApplyAll ==
    /\ phase = "order" /\ pc = "apply_all"
    /\ BeginApplyAll(new_branch)
    /\ UNCHANGED <<other, directory, local, auto_apply_down, helper, store, remote0,
                   migrations_from_db, old_branch, new_branch, state, polls,
                   submitted, left_unfinished>>

\* unapply_all(s3, athena, old_branch); an empty list is no turn of the loop.
CallUnapplyAll ==
    /\ phase = "order" /\ pc = "unapply_all"
    /\ IF old_branch = <<>>
       THEN Control("end", "done", 0, <<>>)
       ELSE BeginUnapplyAll(old_branch)
    /\ UNCHANGED <<other, directory, local, auto_apply_down, helper, store, remote0,
                   migrations_from_db, old_branch, new_branch, state, polls,
                   submitted, left_unfinished>>

NextOrder ==
    \/ CallApplyAll
    \/ CallUnapplyAll
    \/ Submit
    \/ Poll
    \/ DeleteUpMarker
    \/ DeleteDownMarker
    \/ WriteUpMarker
    \/ WriteDownMarker

SpecOrder == InitOrder /\ [][NextOrder]_vars

----------------------------------------------------------------------------
(* Runs of main one after the other, the first against an empty bucket,    *)
(* each with a directory of its own and any failures of queries.           *)

InitRuns ==
    /\ local = <<>>
    /\ directory = {}
    /\ other = <<>>
    /\ auto_apply_down = FALSE
    /\ helper = "aws_helper"
    /\ store = {}
    /\ remote0 = {}
    /\ migrations_from_db = <<>>
    /\ old_branch = <<>>
    /\ new_branch = <<>>
    /\ phase = "exited"
    /\ pc = "idle"
    /\ idx = 0
    /\ queries = <<>>
    /\ state = "NONE"
    /\ polls = 0
    /\ submitted = 0
    /\ left_unfinished = FALSE
    /\ halt = "none"

\* The process of a terminated run ends: only the bucket is left.
ProcessExit ==
    /\ pc \in {"done", "exit5", "aborted"}
    /\ local' = <<>>
    /\ directory' = {}
    /\ auto_apply_down' = FALSE
    /\ remote0' = store
    /\ migrations_from_db' = <<>>
    /\ old_branch' = <<>>
    /\ new_branch' = <<>>
    /\ phase' = "exited"
    /\ pc' = "idle"
    /\ idx' = 0
    /\ queries' = <<>>
    /\ state' = "NONE"
    /\ polls' = 0
    /\ submitted' = 0
    /\ left_unfinished' = FALSE
    /\ halt' = "none"
    /\ UNCHANGED <<other, helper, store>>

\* cli: a run is started with a directory and the auto_apply_down flag.
StartRun ==
    /\ phase = "exited" /\ pc = "idle"
    /\ local' \in {l \in MigrationLists : l # <<>>}
    /\ directory' = DirectoryOf(local')
    /\ auto_apply_down' \in BOOLEAN
    /\ Control("start", "main", 0, <<>>)
    /\ UNCHANGED <<other, helper, store, remote0, migrations_from_db, old_branch,
                   new_branch, state, polls, submitted, left_unfinished>>

\* A step of main in which no call of the bucket or of start_query_execution
\* fails: the failures of these runs are those of the queries.
RunStep == Next /\ halt' \notin {"store", "service"}

NextRuns ==
    \/ RunStep
    \/ ProcessExit
    \/ StartRun

SpecRuns == InitRuns /\ [][NextRuns]_vars

----------------------------------------------------------------------------
(* A run of main from its first line, with any directory.                  *)

InitLoad ==
    /\ directory \in SUBSET FileNames
    /\ other = <<>>
    /\ local = <<>>
    /\ auto_apply_down \in BOOLEAN
    /\ helper = "aws_helper"
    /\ \E r \in MigrationListsUpTo(1) : store = MarkersOf(r)
    /\ remote0 = store
    /\ migrations_from_db = <<>>
    /\ old_branch = <<>>
    /\ new_branch = <<>>
    /\ phase = "load"
    /\ pc = "main"
    /\ idx = 0
    /\ queries = <<>>
    /\ state = "NONE"
    /\ polls = 0
    /\ submitted = 0
    /\ left_unfinished = FALSE
    /\ halt = "none"

\* main: assert_all_migrations_present(migrations_directory); the texts that
\* parse_migrations reads from the files are chosen here.
AssertAllMigrationsPresent ==
    /\ phase = "load" /\ pc = "main"
    /\ LET out == assert_all_migrations_present(directory)
       IN  IF out = "returned"
           THEN /\ local' \in {l \in MigrationLists :
                                 DirectoryOf(l) = get_migration_files_filtered(directory)}
                /\ Control("start", "main", 0, <<>>)
           ELSE IF out = "AssertionError"
           THEN /\ Abort("assert")
                /\ UNCHANGED local
           ELSE /\ Control("load", out, 0, <<>>)
                /\ UNCHANGED local
    /\ UNCHANGED <<other, directory, auto_apply_down, helper, store, remote0,
                   migrations_from_db, old_branch, new_branch, state, polls,
                   submitted, left_unfinished>>

NextLoad ==
    \/ AssertAllMigrationsPresent
    \/ Next

SpecLoad == InitLoad /\ [][NextLoad]_vars

----------------------------------------------------------------------------
(* Two runs of main against one bucket, started against the empty bucket.  *)
(* The variables of main hold the run that takes the steps; other holds    *)
(* the run that waits, and Switch lets the two change places.              *)

\* What a process of main holds: everything but the bucket.
RunContext ==
    [directory |-> directory, local |-> local, auto_apply_down |-> auto_apply_down,
     remote0 |-> remote0, migrations_from_db |-> migrations_from_db,
     old_branch |-> old_branch, new_branch |-> new_branch, phase |-> phase,
     pc |-> pc, idx |-> idx, queries |-> queries, state |-> state,
     polls |-> polls, submitted |-> submitted,
     left_unfinished |-> left_unfinished, halt |-> halt]

\* A run at the first line of main, with the directory of the list l.
StartedRun(l, a) ==
    [directory |-> DirectoryOf(l), local |-> l, auto_apply_down |-> a,
     remote0 |-> {}, migrations_from_db |-> <<>>,
     old_branch |-> <<>>, new_branch |-> <<>>, phase |-> "start",
     pc |-> "main", idx |-> 0, queries |-> <<>>, state |-> "NONE",
     polls |-> 0, submitted |-> 0,
     left_unfinished |-> FALSE, halt |-> "none"]

\* The lists of the two directories: any up scripts, and as down script of
\* every migration the script of one statement (which one it is plays no
\* part in what the two runs do to the markers).
RaceLists ==
    {l \in MigrationLists : l # <<>> /\ \A k \in 1..Len(l) : l[k].down = <<1>>}

InitConcurrent ==
    /\ local \in RaceLists
    /\ directory = DirectoryOf(local)
    /\ auto_apply_down \in BOOLEAN
    /\ other \in {StartedRun(l, a) : l \in RaceLists, a \in BOOLEAN}
    /\ helper = "aws_helper"
    /\ store = {}
    /\ remote0 = {}
    /\ migrations_from_db = <<>>
    /\ old_branch = <<>>
    /\ new_branch = <<>>
    /\ phase = "start"
    /\ pc = "main"
    /\ idx = 0
    /\ queries = <<>>
    /\ state = "NONE"
    /\ polls = 0
    /\ submitted = 0
    /\ left_unfinished = FALSE
    /\ halt = "none"

\* The calls of the bucket, and the ends of main: a process is made to wait
\* only in front of these (a step of execute neither reads nor writes the
\* bucket, so it makes no difference on which side of it the other runs).
SwitchPoints ==
    {"main", "read", "delete_up", "delete_down", "write_up", "write_down",
     "done", "exit5", "aborted"}

\* The other process takes the steps from here on.
Switch ==
    /\ other # <<>>
    /\ pc \in SwitchPoints
    /\ other' = RunContext
    /\ directory' = other.directory
    /\ local' = other.local
    /\ auto_apply_down' = other.auto_apply_down
    /\ remote0' = other.remote0
    /\ migrations_from_db' = other.migrations_from_db
    /\ old_branch' = other.old_branch
    /\ new_branch' = other.new_branch
    /\ phase' = other.phase
    /\ pc' = other.pc
    /\ idx' = other.idx
    /\ queries' = other.queries
    /\ state' = other.state
    /\ polls' = other.polls
    /\ submitted' = other.submitted
    /\ left_unfinished' = other.left_unfinished
    /\ halt' = other.halt
    /\ UNCHANGED <<helper, store>>

\* A step of main with a service that answers SUCCEEDED or FAILED at the
\* first poll and with bucket calls that fail only when the key is gone.
RaceStep ==
    /\ Next
    /\ polls' = 0
    /\ ~left_unfinished'
    /\ halt' # "service"
    /\ halt' = "store" =>
           (phase = "fill" /\ ~s3_has(store, DownKey(old_branch[idx])))

NextConcurrent ==
    \/ RaceStep
    \/ Switch

SpecConcurrent == InitConcurrent /\ [][NextConcurrent]_vars

----------------------------------------------------------------------------
(* Vocabulary of the properties.                                           *)

Range(s) == {s[k] : k \in 1..Len(s)}

IdsOf(s) == [k \in 1..Len(s) |-> s[k].migration_id]

StrictlyAscending(s) ==
    \A k \in 1..(Len(s) - 1) : s[k].migration_id < s[k + 1].migration_id

StrictlyDescending(s) ==
    \A k \in 1..(Len(s) - 1) : s[k].migration_id > s[k + 1].migration_id

\* s lists exactly the members of S, each once.
ListsExactly(s, S) == Range(s) = S /\ Len(s) = Cardinality(S)

\* The positions at which both lists have a migration and the up digests differ.
MismatchPositions(db, fs) ==
    {p \in 1..Len(db) : p <= Len(fs) /\ db[p].up_digest # fs[p].up_digest}

FirstMismatch(db, fs) ==
    CHOOSE p \in MismatchPositions(db, fs) :
        \A q \in MismatchPositions(db, fs) : p <= q

LargestId(db) ==
    IF db = <<>> THEN 0
    ELSE CHOOSE x \in Range(IdsOf(db)) : \A y \in Range(IdsOf(db)) : y <= x

----------------------------------------------------------------------------
\* C2: when the first position at which the recorded and the local up digest
\* differ holds the recorded migration with id D, get_diff returns as rollback
\* set exactly the recorded migrations with id >= D, strictly descending by id,
\* and as apply set exactly the local migrations with id >= D, strictly
\* ascending by id.
C2_DivergenceSets ==
    (pc = "diffed" /\ MismatchPositions(migrations_from_db, local) # {}) =>
        LET D == migrations_from_db[FirstMismatch(migrations_from_db, local)].migration_id
        IN  /\ ListsExactly(old_branch,
                            {m \in Range(migrations_from_db) : m.migration_id >= D})
            /\ StrictlyDescending(old_branch)
            /\ ListsExactly(new_branch, {m \in Range(local) : m.migration_id >= D})
            /\ StrictlyAscending(new_branch)

\* C2 witness: recorded 1,2,3 against local 1,2,3 with the first mismatch at 2
\* gives rollback 3,2 and apply 2,3.
C2_Witness ==
    /\ pc = "diffed"
    /\ IdsOf(migrations_from_db) = <<1, 2, 3>>
    /\ IdsOf(local) = <<1, 2, 3>>
    /\ MismatchPositions(migrations_from_db, local) # {}
    /\ FirstMismatch(migrations_from_db, local) = 2
    /\ IdsOf(old_branch) = <<3, 2>>
    /\ IdsOf(new_branch) = <<2, 3>>

\* C3: when no overlapping position has an up digest mismatch, get_diff returns
\* an empty rollback set and as apply set exactly the local migrations with id
\* greater than the largest recorded id (0 for none), ascending; so nothing
\* recorded yields all of local, a recorded strict prefix yields the missing
\* suffix, and a recorded list longer than local yields two empty sets.
C3_NoDivergenceSets ==
    (pc = "diffed" /\ MismatchPositions(migrations_from_db, local) = {}) =>
        /\ old_branch = <<>>
        /\ ListsExactly(new_branch,
               {m \in Range(local) : m.migration_id > LargestId(migrations_from_db)})
        /\ StrictlyAscending(new_branch)
        /\ migrations_from_db = <<>> => new_branch = local
        /\ (/\ Len(migrations_from_db) < Len(local)
            /\ IdsOf(migrations_from_db) = SubSeq(IdsOf(local), 1, Len(migrations_from_db)))
           => new_branch = SubSeq(local, Len(migrations_from_db) + 1, Len(local))
        /\ Len(migrations_from_db) > Len(local) => new_branch = <<>>

\* C3 witness: recorded 1,2,3 agree with local 1,2 and nothing is rolled back.
C3_Witness ==
    /\ pc = "diffed"
    /\ MismatchPositions(migrations_from_db, local) = {}
    /\ IdsOf(migrations_from_db) = <<1, 2, 3>>
    /\ IdsOf(local) = <<1, 2>>
    /\ old_branch = <<>>
    /\ new_branch = <<>>

----------------------------------------------------------------------------
(* Vocabulary of the properties of a run.                                  *)

KeysOf(s) == [k \in 1..Len(s) |-> get_migration_prefix(s[k])]

\* What get_diff returned when the run started, and what it returns for the
\* bucket st and the same directory.
FirstDiff == get_diff(read_remote(remote0), local)
Rerun(st) == get_diff(read_remote(st), local)

NumStatements(text) == Cardinality({k \in 1..Len(text) : text[k] # 0})

RECURSIVE DownStatements(_)
\* The statements of the recorded down scripts of the migrations of s.
DownStatements(s) ==
    IF s = <<>> THEN 0
    ELSE NumStatements(s3_read(remote0, DownKey(s[1]))) + DownStatements(Tail(s))

NoMarkerOf(st, s) ==
    \A k \in 1..Len(s) : ~s3_has(st, UpKey(s[k])) /\ ~s3_has(st, DownKey(s[k]))

RECURSIVE RemoveMarkers(_, _)
RemoveMarkers(st, s) ==
    IF s = <<>> THEN st
    ELSE RemoveMarkers(s3_delete(s3_delete(st, UpKey(s[1])), DownKey(s[1])), Tail(s))

RECURSIVE AddMarkers(_, _)
AddMarkers(st, s) ==
    IF s = <<>> THEN st
    ELSE AddMarkers(s3_write(s3_write(st, UpKey(s[1]), s[1].up), DownKey(s[1]), s[1].down),
                    Tail(s))

\* The bucket after the first r migrations of the rollback set are unapplied
\* and the first a migrations of the apply set are applied.
BucketAfter(r, a) ==
    AddMarkers(RemoveMarkers(remote0, SubSeq(FirstDiff.old, 1, r)),
               SubSeq(FirstDiff.new, 1, a))

----------------------------------------------------------------------------
\* C1: a run with auto_apply_down in which every call succeeds leaves as
\* recorded migrations exactly the ids 1..N, each with the up digest of the
\* local migration of that id.
C1_Agreement ==
    (pc = "done" /\ auto_apply_down /\ ~left_unfinished) =>
        LET rl == read_remote(store)
        IN  /\ Len(rl) = Len(local)
            /\ \A k \in 1..Len(rl) :
                   /\ rl[k].migration_id = k
                   /\ rl[k].up_digest = local[k].up_digest

\* The part of C1 the code keeps: agreement, unless more migrations are
\* recorded than the directory holds and the common ids have equal up digests.
C1_AgreementUnlessLonger ==
    (pc = "done" /\ auto_apply_down /\ ~left_unfinished) =>
        LET rl == read_remote(store)
            r0 == read_remote(remote0)
        IN  IF Len(r0) > Len(local) /\ MismatchPositions(r0, local) = {}
            THEN store = remote0
            ELSE /\ Len(rl) = Len(local)
                 /\ \A k \in 1..Len(rl) :
                        /\ rl[k].migration_id = k
                        /\ rl[k].up_digest = local[k].up_digest

C4_Step ==
    /\ (store' \ store # {}) => phase = "apply"
    /\ phase # "apply" => submitted' <= DownStatements(FirstDiff.old)
    /\ (phase # "apply" /\ phase' = "apply") =>
           /\ NoMarkerOf(store', FirstDiff.old)
           /\ submitted' = DownStatements(FirstDiff.old)
           /\ pc # "aborted"
    /\ phase = "apply" => phase' \in {"apply", "end"}
    /\ pc' = "aborted" => phase' = phase
    /\ pc = "aborted" => pc' = "aborted"

\* The order of the calls of main: a marker is written and an up statement is
\* submitted only in the apply phase, which starts only when every statement
\* of every recorded down script of the rollback set has been submitted and
\* every marker of the rollback set is deleted; a run that aborts before the
\* apply phase never enters it.
RollbackCallsBeforeApplyCalls == [][C4_Step]_vars

\* C4: the rollback phase precedes the apply phase: no up statement is
\* submitted and no marker is written until every migration of the rollback
\* set has had its down script executed (every statement of it seen SUCCEEDED)
\* and both its markers deleted; after an abort of the rollback phase the
\* apply phase never starts.
C4_RollbackBeforeApply ==
    [][/\ C4_Step
       /\ (phase # "apply" /\ phase' = "apply") => ~left_unfinished']_vars

\* C6: after a run that a query failure halted, get_diff on the bucket it left
\* and the same directory returns the part of the rollback set and of the
\* apply set that the halted run had not completed.
C6_RerunResumes ==
    (pc = "aborted" /\ halt = "query") =>
        LET R == FirstDiff.old
            A == FirstDiff.new
            again == Rerun(store)
        IN  IF phase = "rollback"
            THEN /\ KeysOf(again.old) = SubSeq(KeysOf(R), idx, Len(R))
                 /\ again.new = A
            ELSE /\ phase = "apply"
                 /\ again.old = <<>>
                 /\ again.new = SubSeq(A, idx, Len(A))

\* C6 witness: a run halted in its second application, after a rollback.
C6_Witness ==
    /\ pc = "aborted" /\ halt = "query"
    /\ phase = "apply" /\ idx = 2
    /\ old_branch # <<>>

\* C9: with a rollback set and auto_apply_down false the run exits with code 5
\* and has fetched no down script, submitted no statement and changed no marker.
C9_RollbackForbidden ==
    /\ pc = "exit5" =>
          /\ ~auto_apply_down
          /\ old_branch # <<>>
          /\ \A k \in 1..Len(old_branch) : old_branch[k].down = None
          /\ submitted = 0
          /\ store = remote0
    /\ (phase # "start" /\ ~auto_apply_down /\ FirstDiff.old # <<>>) => pc = "exit5"

\* C9 witness: the run stopped with exit code 5 and an apply set not applied.
C9_Witness ==
    /\ pc = "exit5"
    /\ old_branch # <<>>
    /\ new_branch # <<>>

\* C10: after a run that finished, get_diff on the bucket it left and the
\* same directory returns an empty rollback set and an empty apply set.
C10_Idempotent ==
    pc = "done" => Rerun(store) = [old |-> <<>>, new |-> <<>>]

\* C10 witness: a finished run that rolled back and applied.
C10_Witness ==
    /\ pc = "done"
    /\ ~left_unfinished
    /\ old_branch # <<>>
    /\ new_branch # <<>>
    /\ store # remote0

----------------------------------------------------------------------------
C5_Step ==
    state \in {"FAILED", "CANCELLED"} => (submitted' = submitted /\ store' = store)

C5_AtHalt ==
    (pc = "aborted" /\ halt = "query") =>
        store = IF phase = "rollback"
                THEN BucketAfter(idx - 1, 0)
                ELSE BucketAfter(Len(FirstDiff.old), idx - 1)

\* C5: once a statement is reported FAILED or CANCELLED no statement is
\* submitted and no marker is written or deleted; at the halt the migrations
\* processed before have their full marker effect and every other marker is
\* as it was.
C5_FailFast == [][C5_Step]_vars /\ []C5_AtHalt

\* C7: with the AthenaInfo of aws_helper.py a statement is submitted, and a
\* marker is written or deleted, only when the statement submitted before it
\* (if any) was last seen SUCCEEDED.
C7_StrictSequencing ==
    [][(helper = "aws_helper" /\ (submitted' # submitted \/ store' # store))
          => state \in {"NONE", "SUCCEEDED"}]_vars

C8_Step ==
    pc = "poll" =>
        /\ state' \in {"QUEUED", "RUNNING"} => pc' = "poll"
        /\ state' \in {"FAILED", "CANCELLED"} => pc' = "aborted"
        /\ pc' \notin {"poll", "aborted"} => state' = "SUCCEEDED"

\* C8: execute, of either module, polls again after QUEUED and RUNNING, raises
\* after FAILED and CANCELLED, and returns only after SUCCEEDED.
C8_PollClassification == [][C8_Step]_vars

\* The part of C8 that is about ballerina_aws_helper.py.
BallerinaHelperClassification ==
    [][helper = "ballerina_aws_helper" => C8_Step]_vars

----------------------------------------------------------------------------
C11_Step ==
    state \in {"FAILED", "CANCELLED"} => (submitted' = submitted /\ queries' = queries)

C11_AtFailure ==
    (phase = "execute" /\ state \in {"FAILED", "CANCELLED"}) =>
        /\ pc = "aborted" /\ halt = "query"
        /\ ~left_unfinished
        /\ submitted = NumStatements(new_branch[1].up) - NumStatements(queries) + 1

\* C11: when statement k of a script is the first that fails (is reported
\* FAILED or CANCELLED), execute_many raises, exactly the statements 1..k have
\* been submitted, each of 1..k-1 was seen SUCCEEDED, and no statement is
\* submitted afterwards.
C11_MultiStatementAbort == [][C11_Step]_vars /\ []C11_AtFailure

\* The part of C11 that is about ballerina_aws_helper.py.
BallerinaHelperAbort ==
    /\ [][helper = "ballerina_aws_helper" => C11_Step]_vars
    /\ [](helper = "ballerina_aws_helper" => C11_AtFailure)

\* The part of C11 that aws_helper.py keeps: a statement reported FAILED makes
\* execute_many raise with exactly the statements up to it submitted.
FailedStatementAborts ==
    (phase = "execute" /\ state = "FAILED") =>
        /\ pc = "aborted" /\ halt = "query"
        /\ submitted = NumStatements(new_branch[1].up) - NumStatements(queries) + 1

----------------------------------------------------------------------------
Terminated == pc \in {"done", "exit0", "exit3", "exit5", "aborted"}

\* Both markers of the migration that the key of object o names are in st.
HasBothMarkers(st, o) ==
    LET m == parse_migration_prefix(o.key)
    IN  s3_has(st, UpKey(m)) /\ s3_has(st, DownKey(m))

\* C12: whenever a run has terminated, normally or by the failure of a call,
\* every migration with a marker in the bucket has both its up marker and
\* its down marker there, so every migration that get_db_migration_digests
\* reports has its down marker.
C12_MarkerPairs ==
    Terminated =>
        /\ \A o \in store : HasBothMarkers(store, o)
        /\ \A m \in get_db_migration_digests(store) : s3_has(store, DownKey(m))

\* The part of C12 the code keeps: a run in which no bucket call fails
\* leaves every migration with both markers or none.
MarkerPairsUnlessStoreFailure ==
    (Terminated /\ halt # "store") => \A o \in store : HasBothMarkers(store, o)

----------------------------------------------------------------------------
\* The positions at which both lists have a migration with the same up digest
\* and another down digest.
DownOnlyDifferences(db, fs) ==
    {p \in 1..Len(db) : /\ p <= Len(fs)
                        /\ db[p].up_digest = fs[p].up_digest
                        /\ db[p].down_digest # fs[p].down_digest}

\* C13: when the recorded and the local up digests agree at every common
\* position, get_diff returns an empty rollback set whatever the down digests
\* are, the run fetches and executes no down script, and every recorded
\* marker stays in the bucket with its key and its body.
C13_DownDigestIgnored ==
    MismatchPositions(read_remote(remote0), local) = {} =>
        /\ FirstDiff.old = <<>>
        /\ old_branch = <<>>
        /\ phase \notin {"fill", "rollback"}
        /\ remote0 \subseteq store

\* C13 witness: a finished run that applied a migration while a recorded
\* migration with the local up digest has another down digest than the local
\* one.
C13_Witness ==
    /\ pc = "done"
    /\ MismatchPositions(read_remote(remote0), local) = {}
    /\ DownOnlyDifferences(read_remote(remote0), local) # {}
    /\ new_branch # <<>>
    /\ remote0 \subseteq store
    /\ store # remote0

----------------------------------------------------------------------------
RECURSIVE UpStatements(_)
\* The statements of the up scripts of the migrations of s.
UpStatements(s) ==
    IF s = <<>> THEN 0
    ELSE NumStatements(s[1].up) + UpStatements(Tail(s))

\* The migration that apply_down or apply_up is working on.
CurrentMigration ==
    IF phase = "rollback" THEN old_branch[idx] ELSE new_branch[idx]

\* The statements submitted when every script up to the one of the current
\* migration has been run to its end.
StatementsThroughCurrent ==
    IF phase = "rollback"
    THEN DownStatements(SubSeq(FirstDiff.old, 1, idx))
    ELSE DownStatements(FirstDiff.old) + UpStatements(SubSeq(FirstDiff.new, 1, idx))

MarkerKeysOf(m) == {UpKey(m), DownKey(m)}

C16_Step ==
    store' # store =>
        /\ phase \in {"rollback", "apply"}
        /\ halt = "none"
        /\ queries = <<>>
        /\ submitted = StatementsThroughCurrent
        /\ \A o \in (store' \ store) \cup (store \ store') :
               o.key \in MarkerKeysOf(CurrentMigration)
        /\ phase = "rollback" => store' \subseteq store
        /\ phase = "apply" => store \subseteq store'

C16_AtRaise ==
    (pc = "aborted" /\ halt = "query") =>
        IF phase = "rollback"
        THEN \A key \in MarkerKeysOf(CurrentMigration) : s3_has(store, key)
        ELSE \A key \in MarkerKeysOf(CurrentMigration) : ~s3_has(store, key)

----------------------------------------------------------------------------
\* The objects written or deleted by a step.
ChangedObjects == (store' \ store) \cup (store \ store')

C17_Step ==
    LET r0 == read_remote(remote0)
    IN  IF MismatchPositions(r0, local) # {}
        THEN LET D == r0[FirstMismatch(r0, local)].migration_id
             IN  /\ submitted' # submitted => CurrentMigration.migration_id >= D
                 /\ \A o \in ChangedObjects : o.key[1] >= D
        ELSE /\ remote0 \subseteq store'
             /\ \A o \in ChangedObjects : \A r \in remote0 : o.key[1] # r.key[1]
             /\ submitted' # submitted => phase = "apply"
             /\ phase' \notin {"fill", "rollback"}

\* C17: in a run whose first up digest mismatch is at the recorded migration
\* with id D, every statement submitted belongs to a migration with id >= D
\* and every marker written or deleted has an id >= D; in a run without a
\* mismatch no marker of a recorded migration is written or deleted and no
\* down script is fetched or executed.
C17_Frame == [][C17_Step]_vars

\* C17 witness: a finished run with the divergence point at id 2 that rolled
\* back and applied migration 2 and left the markers of migration 1 alone.
C17_Witness ==
    /\ pc = "done"
    /\ MismatchPositions(read_remote(remote0), local) # {}
    /\ FirstMismatch(read_remote(remote0), local) = 2
    /\ IdsOf(old_branch) = <<2>>
    /\ IdsOf(new_branch) = <<2>>
    /\ submitted >= 2
    /\ {o \in store : o.key[1] = 1} = {o \in remote0 : o.key[1] = 1}
    /\ {o \in store : o.key[1] = 2} # {o \in remote0 : o.key[1] = 2}

----------------------------------------------------------------------------
\* q is what is left of the pieces p after some of them were consumed.
IsSuffix(q, p) == \E k \in 0..Len(p) : q = SubSeq(p, k + 1, Len(p))

\* C18: while migration m is rolled back, the script that apply_down hands
\* to execute_many is the body stored under the down marker key of m when the
\* run started, and the statements submitted are the statements of that body,
\* whatever the down script of the local migration with the id of m is.
C18_RecordedDownScript ==
    phase = "rollback" =>
        LET m == old_branch[idx]
            body == s3_read(remote0, DownKey(m))
        IN  /\ s3_has(remote0, DownKey(m))
            /\ m.down = body
            /\ digest(body) = m.down_digest
            /\ IsSuffix(queries, parsed_queries(body))
            /\ pc \in {"submit", "poll"} => queries # <<>>

\* C18 witness: a statement of the recorded down script of a migration is
\* submitted while the directory has another down script under that id.
C18_Witness ==
    /\ phase = "rollback" /\ pc = "poll"
    /\ old_branch[idx].migration_id <= Len(local)
    /\ local[old_branch[idx].migration_id].down # old_branch[idx].down
    /\ parsed_queries(local[old_branch[idx].migration_id].down) # queries
    /\ queries = parsed_queries(s3_read(remote0, DownKey(old_branch[idx])))

----------------------------------------------------------------------------
\* C19: when the fetch of a recorded down script fails the run halts there
\* with no statement submitted and the bucket as it was when the run started
\* (no migration is rolled back before every down script is fetched), so
\* get_diff of a next run returns what it returned for this one; a rollback
\* starts only with every down script of the rollback set fetched.
C19_FetchFailureSafe ==
    /\ (pc = "aborted" /\ phase = "fill") =>
           /\ halt = "store"
           /\ submitted = 0
           /\ store = remote0
           /\ Rerun(store) = FirstDiff
    /\ phase = "rollback" =>
           \A k \in 1..Len(old_branch) :
               old_branch[k].down = s3_read(remote0, DownKey(old_branch[k]))

\* C19 witness: the fetch of the second down script of the rollback set
\* failed after the first was fetched.
C19_Witness ==
    /\ pc = "aborted" /\ phase = "fill" /\ halt = "store"
    /\ idx = 2
    /\ old_branch[1].down # None
    /\ old_branch[2].down = None

----------------------------------------------------------------------------
OrderingError ==
    /\ pc = "aborted" /\ halt = "assert"
    /\ submitted = 0
    /\ store = remote0

\* C20: apply_all with a list that is not strictly ascending by migration id,
\* and unapply_all with a list that is not strictly descending by migration id
\* (a list that repeats an id included), fails with the ordering error with
\* no statement submitted and no marker written or deleted.
C20_OrderingPrecondition ==
    (phase # "order" \/ pc \notin {"apply_all", "unapply_all"}) =>
        /\ ~StrictlyAscending(new_branch) => OrderingError
        /\ ~StrictlyDescending(old_branch) => OrderingError

\* The part of C20 the code keeps: a list in which some id is followed by a
\* smaller (for unapply_all: larger) id fails with the ordering error.
StrictlyOutOfOrderRejected ==
    (phase # "order" \/ pc \notin {"apply_all", "unapply_all"}) =>
        /\ (\E k \in 1..(Len(new_branch) - 1) :
               new_branch[k].migration_id > new_branch[k + 1].migration_id)
           => OrderingError
        /\ (\E k \in 1..(Len(old_branch) - 1) :
               old_branch[k].migration_id < old_branch[k + 1].migration_id)
           => OrderingError

----------------------------------------------------------------------------
\* C15: in runs of main one after the other from an empty bucket the recorded
\* migrations, sorted, have the ids 1..K in this order, one (up_digest,
\* down_digest) pair per id, so the list main hands to get_diff has id p at
\* position p as the local list has.
C15_RemoteContiguity ==
    LET rl == read_remote(store)
    IN  /\ \A p \in 1..Len(rl) : rl[p].migration_id = p
        /\ \A p \in 1..Len(migrations_from_db) : migrations_from_db[p].migration_id = p
        /\ \A p \in 1..Len(local) : local[p].migration_id = p

\* C15 witness: a later run that rolled back and applied, leaving two
\* recorded migrations.
C15_Witness ==
    /\ pc = "done"
    /\ remote0 # {}
    /\ old_branch # <<>>
    /\ new_branch # <<>>
    /\ Len(read_remote(store)) = 2
    /\ store # remote0

----------------------------------------------------------------------------
\* The files of the directory whose name ends in .sql, in any case of letters.
SqlFiles(dir) ==
    {f \in dir : f.rest \in {"_up.sql", "_down.sql", "_notes.sql", "_UP.SQL"}}

\* The files are exactly k_up.sql and k_down.sql for k in 1..N, with N >= 1.
ExactlyThePairs(files) ==
    \E N \in 1..MaxMigrations :
        files = {UpFile(k) : k \in 1..N} \cup {DownFile(k) : k \in 1..N}

\* The run has ended in assert_all_migrations_present, before any call of
\* the bucket or of the query service.
RejectedBeforeRemote ==
    /\ phase = "load"
    /\ pc \in {"exit0", "exit3", "aborted"}
    /\ migrations_from_db = <<>>
    /\ submitted = 0
    /\ store = remote0

\* C14: the run gets past assert_all_migrations_present, to its first call of
\* the bucket, only if the files of the directory are exactly k_up.sql and
\* k_down.sql for k in 1..N with N >= 1; with any other directory it ends
\* there, before any remote call.
C14_ValidationFirst ==
    (phase # "load" \/ pc # "main") =>
        IF ExactlyThePairs(directory)
        THEN phase # "load"
        ELSE RejectedBeforeRemote

\* C14 as amended: the same with the files of the directory whose name ends
\* in .sql (in any case of letters) in the place of all its files.
C14_SqlFilesValidatedFirst ==
    (phase # "load" \/ pc # "main") =>
        IF ExactlyThePairs(SqlFiles(directory))
        THEN phase # "load" /\ DirectoryOf(local) = SqlFiles(directory)
        ELSE RejectedBeforeRemote

\* C14 witness: a finished run from a directory that holds README.md next to
\* the two files of migration 1.
C14_Witness ==
    /\ pc = "done"
    /\ store # remote0
    /\ SqlFiles(directory) # directory
    /\ SqlFiles(directory) = {UpFile(1), DownFile(1)}

----------------------------------------------------------------------------
\* The bucket has markers of two digest pairs under one migration id.
TwoPairsUnderOneId(st) ==
    \E a \in get_db_migration_digests(st), b \in get_db_migration_digests(st) :
        a.migration_id = b.migration_id /\ a # b

\* The ids with a marker in the bucket are not 1..K.
IdsNotContiguous(st) ==
    \E m \in get_db_migration_digests(st) :
        \E k \in 1..(m.migration_id - 1) :
            \A n \in get_db_migration_digests(st) : n.migration_id # k

\* A step of the run that holds the variables of main.
C21_Step ==
    other' = other =>
        /\ pc = "write_up" =>
               /\ pc' = "write_down"
               /\ s3_has(store', UpKey(new_branch[idx]))
        /\ pc = "write_down" =>
               /\ pc' \in {"submit", "write_up", "done"}
               /\ s3_has(store', DownKey(new_branch[idx]))
        /\ pc = "delete_up" =>
               /\ pc' = "delete_down"
               /\ ~s3_has(store', UpKey(old_branch[idx]))
        /\ pc = "delete_down" =>
               /\ pc' \in {"submit", "delete_up", "write_up", "done"}
               /\ ~s3_has(store', DownKey(old_branch[idx]))
        /\ pc' = "aborted" =>
               \/ halt' = "query" /\ state' = "FAILED"
               \/ /\ halt' = "store" /\ phase = "fill"
                  /\ ~s3_has(store, DownKey(old_branch[idx]))

\* The rollback set and the apply set of a run are those that get_diff gave
\* for the markers the run listed when it started.
PlanFromOwnListing(run) ==
    run.phase \in {"fill", "rollback", "apply", "end"} =>
        /\ KeysOf(run.old_branch) =
               KeysOf(get_diff(run.migrations_from_db, run.local).old)
        /\ run.new_branch = get_diff(run.migrations_from_db, run.local).new

\* C21: with two runs against one bucket no step of a run looks at what the
\* other run did: each run keeps the rollback set and the apply set of its
\* own listing, every marker write and delete it reaches is carried out
\* whatever the bucket holds by then, and a run stops only for a FAILED
\* statement or a down script that is gone, never for the state of the
\* markers; so the corrupt states of the witness are reached.
C21_NoStepDetects ==
    /\ [][C21_Step]_vars
    /\ [](PlanFromOwnListing(RunContext) /\ PlanFromOwnListing(other))

\* C21 witness: both runs have finished without any failure and the bucket
\* holds markers of two digest pairs under one migration id.
C21_Witness ==
    /\ pc = "done" /\ halt = "none"
    /\ other.pc = "done" /\ other.halt = "none"
    /\ TwoPairsUnderOneId(store)

\* The other corrupt state of C21, reached as well: both runs have terminated
\* and the recorded ids are not 1..K.
GapAtTheEnd ==
    /\ pc \in {"done", "aborted"}
    /\ other.pc \in {"done", "aborted"}
    /\ IdsNotContiguous(store)

----------------------------------------------------------------------------
\* execute has no timeout: the poll loop is left only on an answer, with a
\* state that is none of RUNNING, however many answers there have been.
C22_Step ==
    pc = "poll" =>
        /\ state' \in RUNNING(helper) => (pc' = "poll" /\ queries' = queries)
        /\ pc' # "poll" => (state' # state \/ state' \notin RUNNING(helper))

====
